---- MODULE Spec2Model ----
(***************************************************************************)
(* A model of the schemago linter: decoding of a JSON Schema document into *)
(* a Schema node tree (linter/schema.go), the union helpers of Schema, and *)
(* the lint run that walks the tree and emits issues per profile.          *)
(*                                                                         *)
(* A JSON text is a tagged record:                                         *)
(*   [k |-> "null"], [k |-> "bool", b |-> ..], [k |-> "str", s |-> ..],    *)
(*   [k |-> "num", n |-> ..], [k |-> "arr", a |-> <<..>>],                 *)
(*   [k |-> "obj", o |-> [key |-> value]], and [k |-> "invalid"] for bytes *)
(*   that are not syntactically valid JSON.                                *)
(***************************************************************************)
EXTENDS Integers, Sequences, FiniteSets, TLC

VARIABLES profile, data, pc, schema, issues, err, counts

vars == <<profile, data, pc, schema, issues, err, counts>>

-----------------------------------------------------------------------------
(* JSON texts *)

JNull == [k |-> "null"]
JBool(b) == [k |-> "bool", b |-> b]
JStr(s) == [k |-> "str", s |-> s]
JNum(n) == [k |-> "num", n |-> n]
JArr(a) == [k |-> "arr", a |-> a]
JObj(o) == [k |-> "obj", o |-> o]
JInvalid == [k |-> "invalid"]

Has(j, key) == j.k = "obj" /\ key \in DOMAIN j.o

-----------------------------------------------------------------------------
(* Schema: the decoded node.  A *Schema is a Schema record; the nil        *)
(* pointer is NilSchema.  A *bool is "nil", "true" or "false".  A value of *)
(* type any is the JSON text it was decoded from, JNull standing for nil.  *)

ZeroSchema ==
  [ Nil |-> FALSE,
    Schema |-> "", ID |-> "", Ref |-> "",
    Defs |-> <<>>, Definitions |-> <<>>,
    Type |-> "", TypeList |-> <<>>,
    AnyOf |-> <<>>, OneOf |-> <<>>, AllOf |-> <<>>,
    Properties |-> <<>>, Required |-> <<>>,
    AdditionalProperties |-> "nil", AdditionalPropertiesSchema |-> <<>>,
    Items |-> <<>>,
    Const |-> JNull, Enum |-> <<>>,
    Title |-> "", Description |-> "", Default |-> JNull,
    XAbstractComponent |-> "nil",
    IsBooleanSchema |-> FALSE, BooleanValue |-> FALSE ]

NilSchema == [ZeroSchema EXCEPT !.Nil = TRUE]

(* Variant of StringField: the string is checked but not stored. *)
StringField_Dropped(j, key) ==
  IF ~Has(j, key) \/ j.o[key].k \in {"str", "null"}
    THEN [err |-> FALSE, v |-> ""]
  ELSE [err |-> TRUE, v |-> ""]

(* encoding/json into a string field: a JSON string is stored, null leaves *)
(* the field alone, any other kind is an UnmarshalTypeError.               *)
StringField(j, key) ==
  IF ~Has(j, key) THEN [err |-> FALSE, v |-> ""]
  ELSE IF j.o[key].k = "str" THEN [err |-> FALSE, v |-> j.o[key].s]
  ELSE IF j.o[key].k = "null" THEN [err |-> FALSE, v |-> ""]
  ELSE [err |-> TRUE, v |-> ""]

(* encoding/json into a *bool field. *)
BoolPtrField(j, key) ==
  IF ~Has(j, key) THEN [err |-> FALSE, v |-> "nil"]
  ELSE IF j.o[key].k = "bool"
         THEN [err |-> FALSE, v |-> IF j.o[key].b THEN "true" ELSE "false"]
  ELSE IF j.o[key].k = "null" THEN [err |-> FALSE, v |-> "nil"]
  ELSE [err |-> TRUE, v |-> "nil"]

(* encoding/json into a []string field (null elements leave ""). *)
StringSlice(j) ==
  IF j.k = "null" THEN [err |-> FALSE, v |-> <<>>]
  ELSE IF j.k # "arr" THEN [err |-> TRUE, v |-> <<>>]
  ELSE [err |-> \E i \in 1..Len(j.a) : j.a[i].k \notin {"str", "null"},
        v |-> [i \in 1..Len(j.a) |->
                 IF j.a[i].k = "str" THEN j.a[i].s ELSE ""]]

StringSliceField(j, key) ==
  IF ~Has(j, key) THEN [err |-> FALSE, v |-> <<>>] ELSE StringSlice(j.o[key])

(* encoding/json into a field of type any, and of type []any. *)
(* Variant of AnyField: the value is never stored. *)
AnyField_Dropped(j, key) == JNull

AnyField(j, key) == IF Has(j, key) THEN j.o[key] ELSE JNull

AnySliceField(j, key) ==
  IF ~Has(j, key) \/ j.o[key].k = "null" THEN [err |-> FALSE, v |-> <<>>]
  ELSE IF j.o[key].k # "arr" THEN [err |-> TRUE, v |-> <<>>]
  ELSE [err |-> FALSE, v |-> j.o[key].a]

RECURSIVE UnmarshalJSON(_)

(* The decoded members of a map or slice and whether any of them failed.   *)
SplitResults(r) ==
  [err |-> \E n \in DOMAIN r : r[n].err, v |-> [n \in DOMAIN r |-> r[n].s]]

(* encoding/json into a *Schema: null stores the nil pointer without       *)
(* calling the Unmarshaler, anything else goes to Schema.UnmarshalJSON.    *)
UnmarshalPtr(j) ==
  IF j.k = "null" THEN [err |-> FALSE, s |-> NilSchema] ELSE UnmarshalJSON(j)

(* encoding/json into a map[string]*Schema field. *)
SchemaMapField(j, key) ==
  IF ~Has(j, key) \/ j.o[key].k = "null" THEN [err |-> FALSE, v |-> <<>>]
  ELSE IF j.o[key].k # "obj" THEN [err |-> TRUE, v |-> <<>>]
  ELSE SplitResults([n \in DOMAIN j.o[key].o |-> UnmarshalPtr(j.o[key].o[n])])

(* Variant of SchemaSliceField: the list is never stored. *)
SchemaSliceField_Dropped(j, key) ==
  IF Has(j, key) /\ j.o[key].k \notin {"null", "arr"}
    THEN [err |-> TRUE, v |-> <<>>]
  ELSE [err |-> FALSE, v |-> <<>>]

(* encoding/json into a []*Schema field. *)
SchemaSliceField(j, key) ==
  IF ~Has(j, key) \/ j.o[key].k = "null" THEN [err |-> FALSE, v |-> <<>>]
  ELSE IF j.o[key].k # "arr" THEN [err |-> TRUE, v |-> <<>>]
  ELSE SplitResults([i \in 1..Len(j.o[key].a) |-> UnmarshalPtr(j.o[key].a[i])])

AsPointer(r) == [err |-> r.err, v |-> <<r.s>>]

(* Variant of AsAdditional: the nested schema is not kept. *)
AsAdditional_NoSchema(r) ==
  IF r.err THEN [ap |-> "nil", aps |-> <<>>] ELSE [ap |-> "true", aps |-> <<>>]

(* A nested additionalProperties schema that decodes is recorded with      *)
(* AdditionalProperties = true; one that does not decode is dropped.       *)
AsAdditional(r) ==
  IF r.err THEN [ap |-> "nil", aps |-> <<>>] ELSE [ap |-> "true", aps |-> <<r.s>>]

(* encoding/json into a *Schema field; a nil pointer is the empty tuple.   *)
SchemaPtrField(j, key) ==
  IF ~Has(j, key) \/ j.o[key].k = "null" THEN [err |-> FALSE, v |-> <<>>]
  ELSE AsPointer(UnmarshalJSON(j.o[key]))

(* A type list that decodes as []string sets TypeList, and Type when it   *)
(* has exactly one element.                                                *)
TypeFromList(arr) ==
  IF arr.err THEN [Type |-> "", TypeList |-> <<>>]
  ELSE [Type |-> IF Len(arr.v) = 1 THEN arr.v[1] ELSE "", TypeList |-> arr.v]

(* "type": a string, else a list of strings, else left unset; never an     *)
(* error.                                                                  *)
DecodeType(j) ==
  IF ~Has(j, "type") THEN [Type |-> "", TypeList |-> <<>>]
  ELSE LET t == j.o["type"]
       IN IF t.k = "str" THEN [Type |-> t.s, TypeList |-> <<>>]
          ELSE IF t.k = "null" THEN [Type |-> "", TypeList |-> <<>>]
          ELSE TypeFromList(StringSlice(t))

(* "properties": an object whose members are each decoded by a top-level   *)
(* json.Unmarshal into a fresh Schema (so null reaches UnmarshalJSON).     *)
DecodeProperties(j) ==
  IF ~Has(j, "properties") \/ j.o["properties"].k = "null"
    THEN [err |-> FALSE, v |-> <<>>]
  ELSE IF j.o["properties"].k # "obj" THEN [err |-> TRUE, v |-> <<>>]
  ELSE SplitResults([n \in DOMAIN j.o["properties"].o |->
                        UnmarshalJSON(j.o["properties"].o[n])])

(* Variant of DecodeAdditionalProperties: any boolean is stored as true.    *)
DecodeAdditionalProperties_AlwaysTrue(j) ==
  IF ~Has(j, "additionalProperties") THEN [ap |-> "nil", aps |-> <<>>]
  ELSE LET a == j.o["additionalProperties"]
       IN IF a.k = "bool" THEN [ap |-> "true", aps |-> <<>>]
          ELSE IF a.k = "null" THEN [ap |-> "false", aps |-> <<>>]
          ELSE AsAdditional(UnmarshalJSON(a))

(* "additionalProperties": a bool (null decodes as false), else a schema   *)
(* (recorded with AdditionalProperties = true), else left unset; never an  *)
(* error.                                                                  *)
DecodeAdditionalProperties(j) ==
  IF ~Has(j, "additionalProperties") THEN [ap |-> "nil", aps |-> <<>>]
  ELSE LET a == j.o["additionalProperties"]
       IN IF a.k = "bool"
            THEN [ap |-> IF a.b THEN "true" ELSE "false", aps |-> <<>>]
          ELSE IF a.k = "null" THEN [ap |-> "false", aps |-> <<>>]
          ELSE AsAdditional(UnmarshalJSON(a))

(* *s = Schema(alias) and the three specially handled fields, given the   *)
(* outcome f of decoding each field; any field error fails the node.       *)
AssembleSchema(f) ==
  IF \/ f.Schema.err \/ f.ID.err \/ f.Ref.err \/ f.Defs.err
     \/ f.Definitions.err \/ f.AnyOf.err \/ f.OneOf.err \/ f.AllOf.err
     \/ f.Required.err \/ f.Items.err \/ f.Enum.err \/ f.Title.err
     \/ f.Description.err \/ f.XAbstractComponent.err \/ f.Properties.err
    THEN [err |-> TRUE, s |-> ZeroSchema]
  ELSE [err |-> FALSE,
        s |-> [ Nil |-> FALSE,
                Schema |-> f.Schema.v, ID |-> f.ID.v, Ref |-> f.Ref.v,
                Defs |-> f.Defs.v, Definitions |-> f.Definitions.v,
                Type |-> f.Type.Type, TypeList |-> f.Type.TypeList,
                AnyOf |-> f.AnyOf.v, OneOf |-> f.OneOf.v,
                AllOf |-> f.AllOf.v,
                Properties |-> f.Properties.v, Required |-> f.Required.v,
                AdditionalProperties |-> f.Additional.ap,
                AdditionalPropertiesSchema |-> f.Additional.aps,
                Items |-> f.Items.v,
                Const |-> f.Const, Enum |-> f.Enum.v,
                Title |-> f.Title.v, Description |-> f.Description.v,
                Default |-> f.Default,
                XAbstractComponent |-> f.XAbstractComponent.v,
                IsBooleanSchema |-> FALSE, BooleanValue |-> FALSE ]]

(* Schema.UnmarshalJSON on a fresh Schema: a boolean (or null) text is a   *)
(* boolean schema; otherwise the text must be an object.                   *)
UnmarshalJSON(j) ==
  IF j.k \in {"bool", "null"}
    THEN [err |-> FALSE,
          s |-> [ZeroSchema EXCEPT !.IsBooleanSchema = TRUE,
                                   !.BooleanValue = (j.k = "bool" /\ j.b)]]
  ELSE IF j.k # "obj" THEN [err |-> TRUE, s |-> ZeroSchema]
  ELSE AssembleSchema(
         [ Schema |-> StringField(j, "$schema"),
           ID |-> StringField(j, "$id"),
           Ref |-> StringField(j, "$ref"),
           Defs |-> SchemaMapField(j, "$defs"),
           Definitions |-> SchemaMapField(j, "definitions"),
           AnyOf |-> SchemaSliceField(j, "anyOf"),
           OneOf |-> SchemaSliceField(j, "oneOf"),
           AllOf |-> SchemaSliceField(j, "allOf"),
           Required |-> StringSliceField(j, "required"),
           Items |-> SchemaPtrField(j, "items"),
           Const |-> AnyField(j, "const"),
           Enum |-> AnySliceField(j, "enum"),
           Title |-> StringField(j, "title"),
           Description |-> StringField(j, "description"),
           Default |-> AnyField(j, "default"),
           XAbstractComponent |-> BoolPtrField(j, "x-abstract-component"),
           Type |-> DecodeType(j),
           Properties |-> DecodeProperties(j),
           Additional |-> DecodeAdditionalProperties(j) ])

-----------------------------------------------------------------------------
(* Schema helpers *)

(* Variant of IsObject: the properties are not consulted. *)
IsObject_TypeOnly(s) == s.Type = "object"

IsObject(s) == s.Type = "object" \/ Cardinality(DOMAIN s.Properties) > 0

IsArray(s) == s.Type = "array" \/ Len(s.Items) > 0

(* Variant of IsUnion: allOf counts as well. *)
IsUnion_AnyComposition(s) ==
  Len(s.AnyOf) > 0 \/ Len(s.OneOf) > 0 \/ Len(s.AllOf) > 0

(* Variant of IsUnion: oneOf is not consulted. *)
IsUnion_AnyOfOnly(s) == Len(s.AnyOf) > 0

IsUnion(s) == Len(s.AnyOf) > 0 \/ Len(s.OneOf) > 0

(* Variant of IsRef: only a reference to Animal, Dog or Cat counts. *)
IsRef_Known(s) == s.Ref \in {"#/$defs/Animal", "#/$defs/Dog", "#/$defs/Cat"}

(* Variant of IsRef: the test is inverted. *)
IsRef_Inverted(s) == s.Ref = ""

IsRef(s) == s.Ref # ""

(* Variants of GetUnionVariants: oneOf is never returned; oneOf takes      *)
(* precedence over anyOf.                                                  *)
GetUnionVariants_AnyOfOnly(s) == s.AnyOf

GetUnionVariants_OneOfFirst(s) == IF Len(s.OneOf) > 0 THEN s.OneOf ELSE s.AnyOf

GetUnionVariants(s) == IF Len(s.AnyOf) > 0 THEN s.AnyOf ELSE s.OneOf

(* Variant of HasMixedType: a one-element list counts as mixed. *)
HasMixedType_AnyList(s) == Len(s.TypeList) > 0

HasMixedType(s) == Len(s.TypeList) > 1

(* Variant of HasType: a type string is not consulted. *)
HasType_ListOnly(s) == Len(s.TypeList) > 0

(* Variant of HasType: a schema with properties counts as typed. *)
HasType_OrProperties(s) ==
  s.Type # "" \/ Len(s.TypeList) > 0 \/ Cardinality(DOMAIN s.Properties) > 0

HasType(s) == s.Type # "" \/ Len(s.TypeList) > 0

-----------------------------------------------------------------------------
(* Configuration and issues *)

ProfileDefault == "default"
ProfileScale == "scale"
Profiles == {ProfileDefault, ProfileScale}

(* DefaultConfig().MaxUnionVariants: the large-union threshold. *)
DefaultMaxUnionVariants == 10

SeverityError == "error"
SeverityWarning == "warning"
SeverityInfo == "info"

CodeUnionNoDiscriminator == "union-no-discriminator"
CodeLargeUnion == "large-union"
CodeAdditionalProps == "additional-properties"
CodeCompositionDisallowed == "composition-disallowed"
CodeAdditionalPropsDisallowed == "additional-properties-disallowed"
CodeMissingType == "missing-type"
CodeMixedTypeDisallowed == "mixed-type-disallowed"

Issue(code, severity, path) ==
  [Code |-> code, Severity |-> severity, Path |-> path]

(* The answers of the Result queries, before any is asked. *)
NoCounts == [errors |-> 0, warnings |-> 0, hasErrors |-> FALSE]

(* Variant of HasErrors: any issue counts. *)
HasErrors_AnyIssue(is) == Len(is) > 0

(* Result queries. *)
CountSeverity(is, sev) ==
  Cardinality({i \in 1..Len(is) : is[i].Severity = sev})

ErrorCount(is) == CountSeverity(is, SeverityError)

WarningCount(is) == CountSeverity(is, SeverityWarning)

HasErrors(is) == \E i \in 1..Len(is) : is[i].Severity = SeverityError

-----------------------------------------------------------------------------
(* Union classifier and discriminator detector *)

ShapeNullable == "Nullable"
ShapeReferenceOnly == "ReferenceOnly"
ShapeDiscriminated == "Discriminated"
ShapeAmbiguous == "Ambiguous"
ShapeSingle == "Single"

(* A variant whose effective type is null. *)
IsNullVariant(v) == ~v.Nil /\ v.Type = "null"

(* Exactly two variants, one of them the null type. *)
IsNullablePattern(variants) ==
  Len(variants) = 2 /\ \E i \in 1..2 : IsNullVariant(variants[i])

(* Every variant is a $ref. *)
IsAllRefs(variants) ==
  \A i \in 1..Len(variants) : ~variants[i].Nil /\ IsRef(variants[i])

(* The variants that can carry a discriminator: $ref variants are opaque.  *)
DiscriminatorSources(variants) ==
  {i \in 1..Len(variants) : ~(~variants[i].Nil /\ IsRef(variants[i]))}

HasConstProperty(v, p) ==
  /\ ~v.Nil
  /\ p \in DOMAIN v.Properties
  /\ v.Properties[p].Const # JNull

(* The property names accepted as a discriminator: present with a const in *)
(* every source variant, the constants pairwise distinct, at least two     *)
(* source variants.                                                        *)
DiscriminatorCandidates(variants) ==
  LET src == DiscriminatorSources(variants)
      names == UNION {IF variants[i].Nil THEN {}
                      ELSE DOMAIN variants[i].Properties : i \in src}
  IN {p \in names :
        /\ Cardinality(src) >= 2
        /\ \A i \in src : HasConstProperty(variants[i], p)
        /\ \A i, j \in src :
             i # j => variants[i].Properties[p].Const
                        # variants[j].Properties[p].Const}

(* The discriminator field, "" when detection fails. *)
FindDiscriminator(variants) ==
  LET c == DiscriminatorCandidates(variants)
  IN IF c = {} THEN "" ELSE CHOOSE p \in c : TRUE

(* The Union Shape of a variant list. *)
ClassifyUnion(variants) ==
  IF IsNullablePattern(variants) THEN ShapeNullable
  ELSE IF IsAllRefs(variants) THEN ShapeReferenceOnly
  ELSE IF Len(variants) < 2 THEN ShapeSingle
  ELSE IF FindDiscriminator(variants) # "" THEN ShapeDiscriminated
  ELSE ShapeAmbiguous

(* additionalProperties openness of sibling variants: open is an explicit  *)
(* true (or a nested schema), closed an explicit false.                    *)
IsOpen(v) == ~v.Nil /\ v.AdditionalProperties = "true"
IsClosed(v) == ~v.Nil /\ v.AdditionalProperties = "false"

VariantsDisagreeOnOpenness(variants) ==
  /\ \E i \in 1..Len(variants) : IsOpen(variants[i])
  /\ \E i \in 1..Len(variants) : IsClosed(variants[i])

-----------------------------------------------------------------------------
(* Rule engine *)

UnionKeyword(s) == IF Len(s.AnyOf) > 0 THEN "anyOf" ELSE "oneOf"

UnionPath(s, path) == path \o "/" \o UnionKeyword(s)

(* The union rules on one node. *)
LintUnion(s, path, prof) ==
  IF ~IsUnion(s) THEN <<>>
  ELSE
    LET variants == GetUnionVariants(s)
        up == UnionPath(s, path)
    IN (IF ClassifyUnion(variants) = ShapeAmbiguous
          THEN <<Issue(CodeUnionNoDiscriminator, SeverityError, up)>>
          ELSE <<>>)
       \o (IF Len(variants) > DefaultMaxUnionVariants
             THEN <<Issue(CodeLargeUnion, SeverityWarning, up)>>
             ELSE <<>>)
       \o (IF prof = ProfileDefault /\ VariantsDisagreeOnOpenness(variants)
             THEN <<Issue(CodeAdditionalProps, SeverityWarning, up)>>
             ELSE <<>>)

IsComposed(s) == Len(s.AnyOf) > 0 \/ Len(s.OneOf) > 0 \/ Len(s.AllOf) > 0

(* The scale-profile rules on one node. *)
LintScale(s, path, prof) ==
  IF prof # ProfileScale THEN <<>>
  ELSE
    (IF Len(s.AnyOf) > 0
       THEN <<Issue(CodeCompositionDisallowed, SeverityError,
                    path \o "/anyOf")>>
       ELSE <<>>)
    \o (IF Len(s.OneOf) > 0
          THEN <<Issue(CodeCompositionDisallowed, SeverityError,
                       path \o "/oneOf")>>
          ELSE <<>>)
    \o (IF Len(s.AllOf) > 0
          THEN <<Issue(CodeCompositionDisallowed, SeverityError,
                       path \o "/allOf")>>
          ELSE <<>>)
    \o (IF /\ IsObject(s)
           /\ s.AdditionalProperties = "true"
           /\ Len(s.AdditionalPropertiesSchema) = 0
          THEN <<Issue(CodeAdditionalPropsDisallowed, SeverityError, path)>>
          ELSE <<>>)
    \o (IF ~IsRef(s) /\ ~s.IsBooleanSchema /\ ~IsComposed(s) /\ ~HasType(s)
          THEN <<Issue(CodeMissingType, SeverityError, path)>>
          ELSE <<>>)
    \o (IF HasMixedType(s)
          THEN <<Issue(CodeMixedTypeDisallowed, SeverityError, path)>>
          ELSE <<>>)

(* The issues of one node, children excluded. *)
LintNode(s, path, prof) ==
  IF s.Nil \/ s.IsBooleanSchema THEN <<>>
  ELSE LintUnion(s, path, prof) \o LintScale(s, path, prof)

RECURSIVE SetToSeq(_)
SetToSeq(S) ==
  IF S = {} THEN <<>>
  ELSE LET x == CHOOSE y \in S : TRUE IN <<x>> \o SetToSeq(S \ {x})

RECURSIVE Flatten(_)
Flatten(ss) == IF Len(ss) = 0 THEN <<>> ELSE Head(ss) \o Flatten(Tail(ss))

(* The sub-schemas of a node with their paths, in traversal order. *)
Children(s, path) ==
  IF s.Nil THEN <<>>
  ELSE
    LET ofMap(m, kw) ==
          LET ns == SetToSeq(DOMAIN m)
          IN [i \in 1..Len(ns) |->
                [s |-> m[ns[i]], path |-> path \o "/" \o kw \o "/" \o ns[i]]]
        ofList(l, kw) ==
          [i \in 1..Len(l) |->
             [s |-> l[i], path |-> path \o "/" \o kw \o "/" \o ToString(i - 1)]]
        ofPtr(p, kw) ==
          [i \in 1..Len(p) |-> [s |-> p[i], path |-> path \o "/" \o kw]]
    IN ofMap(s.Defs, "$defs") \o ofMap(s.Definitions, "definitions")
       \o ofList(s.AnyOf, "anyOf") \o ofList(s.OneOf, "oneOf")
       \o ofList(s.AllOf, "allOf")
       \o ofMap(s.Properties, "properties")
       \o ofPtr(s.AdditionalPropertiesSchema, "additionalProperties")
       \o ofPtr(s.Items, "items")

(* The walk: every rule on the node, then on every sub-schema. *)
RECURSIVE LintSchema(_, _, _)
LintSchema(s, path, prof) ==
  LET cs == Children(s, path)
  IN LintNode(s, path, prof)
     \o Flatten([i \in 1..Len(cs) |-> LintSchema(cs[i].s, cs[i].path, prof)])

RootPath == "$"

-----------------------------------------------------------------------------
(* Bounds and the documents a run is given *)

MaxVariants == 3
MaxLarge == 11
MaxIssues == 4

SeqsUpTo(S, n) == UNION {[1..m -> S] : m \in 1..n}

TString == JObj("type" :> JStr("string"))
TNumber == JObj("type" :> JStr("number"))
TNull == JObj("type" :> JStr("null"))
TNullList == JObj("type" :> JArr(<<JStr("null")>>))
TMixed == JObj("type" :> JArr(<<JStr("string"), JStr("number")>>))
TEmpty == JObj(<<>>)

(* An object variant tagged by a const property, as in the tests. *)
Tagged(field, c) ==
  JObj("type" :> JStr("object")
       @@ "properties" :> JObj(field :> JObj("const" :> JStr(c))
                               @@ "name" :> TString))

(* An object variant with one plain property. *)
Plain(p) ==
  JObj("type" :> JStr("object") @@ "properties" :> JObj(p :> TString))

RefTo(name) == JObj("$ref" :> JStr("#/$defs/" \o name))

With(j, key, v) == JObj(key :> v @@ j.o)

Dog == Tagged("type", "dog")
Cat == Tagged("type", "cat")
Bird == Tagged("kind", "bird")
DogOpen == With(Dog, "additionalProperties", JBool(TRUE))
CatClosed == With(Cat, "additionalProperties", JBool(FALSE))
NestedUnion == JObj("anyOf" :> JArr(<<Plain("name"), Plain("title")>>))

VariantPool ==
  { TString, TNull, TNullList, Dog, Cat, Bird, Plain("name"),
    RefTo("Dog"), DogOpen, CatClosed, NestedUnion }

UnionKeywords == {"anyOf", "oneOf"}

UnionOf(kw, vs) == JObj(kw :> JArr(vs))

(* {"$defs": {"X": <union>}}: the union is the only definition. *)
UnionDocs ==
  { JObj("$defs" :> JObj("X" :> UnionOf(kw, vs))) :
      kw \in UnionKeywords, vs \in SeqsUpTo(VariantPool, MaxVariants) }

(* Unions of references beside the definitions they name. *)
RefPool ==
  { RefTo("Dog"), RefTo("Cat"), RefTo("Missing"),
    With(RefTo("Cat"), "title", JStr("cat")), Dog }

DefPool == { Dog, NestedUnion, TString, With(Plain("name"), "anyOf", JArr(<<TString, TNumber>>)) }

RefDocs ==
  { JObj("$defs" :> JObj("Animal" :> UnionOf(kw, vs)
                         @@ "Dog" :> d @@ "Cat" :> Cat)) :
      kw \in UnionKeywords, vs \in SeqsUpTo(RefPool, MaxVariants),
      d \in DefPool }

(* A union of n object variants with pairwise distinct const tags, of n    *)
(* references, or of n untagged objects.                                   *)
LargeVariants(kind, n) ==
  [i \in 1..n |->
     IF kind = "tagged" THEN Tagged("type", "v" \o ToString(i))
     ELSE IF kind = "refs" THEN RefTo("D" \o ToString(i))
     ELSE Plain("p" \o ToString(i))]

LargeDocs ==
  { JObj("$defs" :> JObj("LargeUnion" :> UnionOf(kw, LargeVariants(kind, n)))) :
      kw \in UnionKeywords, kind \in {"tagged", "refs", "plain"},
      n \in (DefaultMaxUnionVariants - 1)..MaxLarge }

(* A two-variant union placed elsewhere in the document. *)
PlacedPool == { TString, TNull, Dog, Cat, Plain("name"), RefTo("Dog") }

PlacedUnions ==
  { UnionOf(kw, vs) : kw \in UnionKeywords, vs \in [1..2 -> PlacedPool] }
  \cup { JObj("allOf" :> JArr(vs)) : vs \in [1..2 -> {Plain("name"), Plain("age")}] }
  \cup { JObj("anyOf" :> JArr(<<a, TString>>) @@ "oneOf" :> JArr(<<b, TNull>>)) :
           a, b \in {Dog, TString} }
  \cup { JObj("anyOf" :> JArr(<<>>)), TString, TEmpty }

Place(where, u) ==
  CASE where = "root" -> u
    [] where = "definitions" -> JObj("definitions" :> JObj("X" :> u))
    [] where = "property" ->
         JObj("type" :> JStr("object") @@ "properties" :> JObj("p" :> u))
    [] where = "items" -> JObj("type" :> JStr("array") @@ "items" :> u)
    [] where = "additionalProperties" ->
         JObj("type" :> JStr("object") @@ "additionalProperties" :> u)
    [] where = "variant" ->
         JObj("$defs" :> JObj("X" :> UnionOf("oneOf", <<Dog, With(Cat, "properties", JObj("type" :> JObj("const" :> JStr("cat")) @@ "inner" :> u))>>)))

Places ==
  {"root", "definitions", "property", "items", "additionalProperties", "variant"}

PlacedDocs == { Place(w, u) : w \in Places, u \in PlacedUnions }

(* Documents without composition: an object with one property. *)
TypeForms ==
  { JStr("object"), JArr(<<JStr("object")>>),
    JArr(<<JStr("object"), JStr("null")>>), JArr(<<>>), JNum(1) }

PropForms ==
  { TString, TEmpty, TMixed, JBool(TRUE), JNull, JObj("const" :> JStr("x")) }

AdditionalForms ==
  { JBool(TRUE), JBool(FALSE), TString, TEmpty, JNull, JNum(1),
    JObj("title" :> JNum(1)) }

ObjectNodes ==
  { JObj((IF ty = JNull THEN <<>> ELSE "type" :> ty)
         @@ "properties" :> JObj("name" :> p)
         @@ (IF ap = JInvalid THEN <<>> ELSE "additionalProperties" :> ap)) :
      ty \in TypeForms \cup {JNull}, p \in PropForms,
      ap \in AdditionalForms \cup {JInvalid} }

ObjectDocs ==
  ObjectNodes \cup { JObj("$defs" :> JObj("Person" :> n)) : n \in ObjectNodes }

(* {"$defs": {"T": {"type": <form>}}}: a definition that is only a type.   *)
TypeDocs ==
  { JObj("$defs" :> JObj("T" :> JObj("type" :> ty))) :
      ty \in TypeForms \cup {JStr("string"), JArr(<<JStr("string")>>),
                             JArr(<<JStr("string"), JStr("number")>>)} }

(* Definitions that reference themselves or each other through $ref.       *)
Linked(to) ==
  JObj("type" :> JStr("object") @@ "properties" :> JObj("next" :> RefTo(to)))

CyclicNodes(to) ==
  { RefTo(to), Linked(to), JObj("type" :> JStr("array") @@ "items" :> RefTo(to)),
    UnionOf("anyOf", <<RefTo(to), TNull>>),
    UnionOf("oneOf", <<RefTo(to), RefTo("A")>>) }

CyclicDocs ==
  { JObj("$defs" :> JObj("A" :> a)) : a \in CyclicNodes("A") }
  \cup { JObj("$defs" :> JObj("A" :> a @@ "B" :> b)) :
           a \in CyclicNodes("B"), b \in CyclicNodes("A") }

(* Inputs the decoder rejects, and the boolean documents. *)
OtherDocs ==
  { JInvalid, JBool(TRUE), JBool(FALSE), JNull, JArr(<<>>), JStr("x"),
    JObj("title" :> JNum(1)), JObj("properties" :> JArr(<<>>)),
    JObj("$defs" :> JObj("X" :> JNum(1))) }

Documents ==
  UnionDocs \cup RefDocs \cup LargeDocs \cup PlacedDocs \cup ObjectDocs
  \cup TypeDocs \cup CyclicDocs \cup OtherDocs

-----------------------------------------------------------------------------
(* The lint run *)

Init ==
  /\ profile \in Profiles
  /\ data \in Documents
  /\ pc = "ready"
  /\ schema = ZeroSchema
  /\ issues = <<>>
  /\ err = FALSE
  /\ counts = NoCounts

(* Linter.Lint: decode, then walk; a decode failure returns no Result.     *)
Lint ==
  /\ pc = "ready"
  /\ pc' = "done"
  /\ \E r \in {IF data.k = "invalid" THEN [err |-> TRUE, s |-> ZeroSchema]
               ELSE UnmarshalJSON(data)} :
        /\ err' = r.err
        /\ schema' = r.s
        /\ issues' = IF r.err THEN <<>>
                     ELSE LintSchema(r.s, RootPath, profile)
  /\ UNCHANGED <<profile, data, counts>>

Next == Lint

Spec == Init /\ [][Next]_vars

(* Runs over the documents with cyclic references. Lint is a single call:  *)
(* once started it runs to its return. Lint is enabled exactly when pc is  *)
(* "ready" and every Lint step takes pc to "done", so weak fairness of     *)
(* Lint is stated on that change of pc.                                    *)
LintReturns == pc = "ready" /\ pc' = "done"

CyclicInit ==
  /\ profile \in Profiles
  /\ data \in CyclicDocs
  /\ pc = "ready"
  /\ schema = ZeroSchema
  /\ issues = <<>>
  /\ err = FALSE
  /\ counts = NoCounts

LiveSpec == CyclicInit /\ [][Next]_vars /\ WF_pc(LintReturns)

(* A Result built directly from a list of issues, as a caller or a test    *)
(* may, and its derived queries.                                           *)
Severities == {SeverityError, SeverityWarning, SeverityInfo}

ResultInit ==
  /\ profile = ProfileDefault
  /\ data = JNull
  /\ pc = "result"
  /\ schema = ZeroSchema
  /\ issues \in SeqsUpTo({Issue("", sev, "") : sev \in Severities}, MaxIssues)
  /\ err = FALSE
  /\ counts = NoCounts

(* result.ErrorCount(), result.WarningCount(), result.HasErrors(). *)
Query ==
  /\ pc = "result"
  /\ pc' = "queried"
  /\ counts' = [errors |-> ErrorCount(issues),
                warnings |-> WarningCount(issues),
                hasErrors |-> HasErrors(issues)]
  /\ UNCHANGED <<profile, data, schema, issues, err>>

ResultNext == Query

ResultSpec == ResultInit /\ [][ResultNext]_vars

-----------------------------------------------------------------------------
(* Reading the input document and the result, for the properties below.    *)

Done == pc = "done" /\ ~err

RawList(j, kw) ==
  IF Has(j, kw) /\ j.o[kw].k = "arr" THEN j.o[kw].a ELSE <<>>

RawMap(j, kw) ==
  IF Has(j, kw) /\ j.o[kw].k = "obj" THEN j.o[kw].o ELSE <<>>

(* The schema positions directly below a JSON schema text, with paths; an  *)
(* additionalProperties object that does not decode is not kept as one.    *)
RawKids(j, path) ==
  UNION { {[raw |-> RawMap(j, kw)[n], path |-> path \o "/" \o kw \o "/" \o n] :
             n \in DOMAIN RawMap(j, kw)} :
          kw \in {"$defs", "definitions", "properties"} }
  \cup UNION { {[raw |-> RawList(j, kw)[i],
                 path |-> path \o "/" \o kw \o "/" \o ToString(i - 1)] :
                  i \in 1..Len(RawList(j, kw))} :
               kw \in {"anyOf", "oneOf", "allOf"} }
  \cup { [raw |-> j.o[kw], path |-> path \o "/" \o kw] :
           kw \in {k \in {"items"} : Has(j, k) /\ j.o[k].k \in {"obj", "bool"}} }
  \cup { [raw |-> j.o[kw], path |-> path \o "/" \o kw] :
           kw \in {k \in {"additionalProperties"} :
                     /\ Has(j, k) /\ j.o[k].k = "obj"
                     /\ ~UnmarshalJSON(j.o[k]).err} }

RECURSIVE RawNodes(_, _)
RawNodes(j, path) ==
  {[raw |-> j, path |-> path]}
  \cup UNION {RawNodes(c.raw, c.path) : c \in RawKids(j, path)}

InputNodes == RawNodes(data, RootPath)

(* The sub-schemas of a decoded node, with paths. *)
DecodedKids(s, path) ==
  UNION { {[s |-> m[n], path |-> path \o "/" \o kw \o "/" \o n] :
             n \in DOMAIN m} :
          <<kw, m>> \in {<<"$defs", s.Defs>>, <<"definitions", s.Definitions>>,
                         <<"properties", s.Properties>>} }
  \cup UNION { {[s |-> l[i], path |-> path \o "/" \o kw \o "/" \o ToString(i - 1)] :
                  i \in 1..Len(l)} :
               <<kw, l>> \in {<<"anyOf", s.AnyOf>>, <<"oneOf", s.OneOf>>,
                              <<"allOf", s.AllOf>>} }
  \cup {[s |-> s.Items[i], path |-> path \o "/items"] : i \in 1..Len(s.Items)}
  \cup {[s |-> s.AdditionalPropertiesSchema[i],
         path |-> path \o "/additionalProperties"] :
          i \in 1..Len(s.AdditionalPropertiesSchema)}

RECURSIVE DecodedNodes(_, _)
DecodedNodes(s, path) ==
  {[s |-> s, path |-> path]}
  \cup UNION {DecodedNodes(c.s, c.path) : c \in DecodedKids(s, path)}

(* The decoded node at a path of the current document. *)
NodeAt(path) ==
  (CHOOSE n \in DecodedNodes(schema, RootPath) : n.path = path).s

(* The variant list of a union as written: anyOf if non-empty, else oneOf. *)
RawVariants(j) ==
  IF Len(RawList(j, "anyOf")) > 0 THEN RawList(j, "anyOf")
  ELSE RawList(j, "oneOf")

RawUnionPath(n) ==
  n.path \o (IF Len(RawList(n.raw, "anyOf")) > 0 THEN "/anyOf" ELSE "/oneOf")

RawIsRef(v) == Has(v, "$ref") /\ v.o["$ref"].k = "str" /\ v.o["$ref"].s # ""

RawTypeIs(v, ty) ==
  Has(v, "type") /\ v.o["type"] \in {JStr(ty), JArr(<<JStr(ty)>>)}

RawComposed(v) ==
  \E kw \in {"anyOf", "oneOf", "allOf"} : Len(RawList(v, kw)) > 0

RawHasConst(v, p) ==
  /\ p \in DOMAIN RawMap(v, "properties")
  /\ Has(RawMap(v, "properties")[p], "const")
  /\ RawMap(v, "properties")[p].o["const"] # JNull

RawConst(v, p) == RawMap(v, "properties")[p].o["const"]

RawPropertyNames(vs) ==
  UNION {DOMAIN RawMap(vs[i], "properties") : i \in 1..Len(vs)}

IssuesWith(code, path) ==
  {i \in 1..Len(issues) : issues[i].Code = code /\ issues[i].Path = path}

IssuesOfCode(code) == {i \in 1..Len(issues) : issues[i].Code = code}

(* The document is {"$defs": {name: n}} and nothing else. *)
OnlyDefinition(n) ==
  /\ data.k = "obj" /\ DOMAIN data.o = {"$defs"}
  /\ \E name \in DOMAIN RawMap(data, "$defs") :
       /\ DOMAIN RawMap(data, "$defs") = {name}
       /\ RawMap(data, "$defs")[name] = n.raw
       /\ n.path = RootPath \o "/$defs/" \o name

-----------------------------------------------------------------------------
(* C1 *)

(* A union written with exactly two variants, one of them of type null.    *)
RawNullableUnion(j) ==
  /\ Len(RawVariants(j)) = 2
  /\ \E i \in 1..2 : RawTypeIs(RawVariants(j)[i], "null")

-----------------------------------------------------------------------------
(* C2 *)

RawAllRefs(vs) == \A i \in 1..Len(vs) : RawIsRef(vs[i])

RawInline(vs) == {i \in 1..Len(vs) : ~RawIsRef(vs[i])}

(* C2 as stated: every union with two or more variants that share no      *)
(* common const-valued property produces exactly one union-no-             *)
(* discriminator error for that union, and HasErrors() is true.            *)
C2_AsStated ==
  Done =>
    \A n \in InputNodes :
      LET vs == RawVariants(n.raw) IN
        ( /\ Len(vs) >= 2
          /\ ~\E p \in RawPropertyNames(vs) :
                \A i \in 1..Len(vs) : RawHasConst(vs[i], p) )
        => /\ Cardinality(IssuesWith(CodeUnionNoDiscriminator,
                                     RawUnionPath(n))) = 1
           /\ HasErrors(issues)

(* C2 amended: every union with two or more variants that is neither the   *)
(* two-variant nullable pattern nor made of $ref variants only, and whose   *)
(* inline variants share no common const-valued property, produces exactly *)
(* one union-no-discriminator issue, of severity error, at that union, and *)
(* HasErrors() is true.                                                    *)
C2_AmbiguousUnion ==
  Done =>
    \A n \in InputNodes :
      LET vs == RawVariants(n.raw) IN
        ( /\ Len(vs) >= 2
          /\ ~RawNullableUnion(n.raw)
          /\ ~RawAllRefs(vs)
          /\ ~\E p \in RawPropertyNames(vs) :
                \A i \in RawInline(vs) : RawHasConst(vs[i], p) )
        => /\ Cardinality(IssuesWith(CodeUnionNoDiscriminator,
                                     RawUnionPath(n))) = 1
           /\ \A i \in IssuesWith(CodeUnionNoDiscriminator, RawUnionPath(n)) :
                issues[i].Severity = SeverityError
           /\ HasErrors(issues)

(* A run over a union of two plain objects without constants, written      *)
(* under oneOf, reports the one error at $/$defs/X/oneOf.                  *)
C2_Witness ==
  /\ Done
  /\ data = JObj("$defs" :> JObj("X" :>
              UnionOf("oneOf", <<Plain("name"), TString>>)))
  /\ issues = <<Issue(CodeUnionNoDiscriminator, SeverityError,
                      "$/$defs/X/oneOf")>>
  /\ HasErrors(issues)

-----------------------------------------------------------------------------
(* C3 *)

RawIsObject(v) ==
  RawTypeIs(v, "object") \/ DOMAIN RawMap(v, "properties") # {}

(* p is declared with a const by every variant in idx, all values differ.  *)
RawDiscriminates(vs, idx, p) ==
  /\ \A i \in idx : RawHasConst(vs[i], p)
  /\ \A i, k \in idx : i # k => RawConst(vs[i], p) # RawConst(vs[k], p)

ErrorsAt(path) ==
  {i \in 1..Len(issues) :
     issues[i].Path = path /\ issues[i].Severity = SeverityError}

(* C3 as stated: every union in which every object variant carries the     *)
(* same property with pairwise distinct const values is classified         *)
(* Discriminated on that property, with no union-no-discriminator issue    *)
(* and, under the default profile, no error for it.                        *)
C3_AsStated ==
  Done =>
    \A n \in InputNodes :
      LET vs == RawVariants(n.raw)
          objs == {i \in 1..Len(vs) : RawIsObject(vs[i])}
      IN \A p \in RawPropertyNames(vs) :
           (Len(vs) >= 2 /\ RawDiscriminates(vs, objs, p)) =>
             /\ ClassifyUnion(GetUnionVariants(NodeAt(n.path)))
                  = ShapeDiscriminated
             /\ FindDiscriminator(GetUnionVariants(NodeAt(n.path))) = p
             /\ IssuesWith(CodeUnionNoDiscriminator, RawUnionPath(n)) = {}
             /\ profile = ProfileDefault => ErrorsAt(RawUnionPath(n)) = {}

(* C3 amended: every union of two or more variants, each of them an inline *)
(* object schema (no $ref) carrying the same property with a const value,  *)
(* the values pairwise distinct, is classified Discriminated on a property *)
(* of that kind, with no union-no-discriminator issue and, under the       *)
(* default profile, no error issue at that union.                          *)
C3_DiscriminatedUnion ==
  Done =>
    \A n \in InputNodes :
      LET vs == RawVariants(n.raw)
          all == 1..Len(vs)
      IN ( /\ Len(vs) >= 2
           /\ \A i \in all : RawIsObject(vs[i]) /\ ~RawIsRef(vs[i])
           /\ \E p \in RawPropertyNames(vs) : RawDiscriminates(vs, all, p) )
         => /\ ClassifyUnion(GetUnionVariants(NodeAt(n.path)))
                 = ShapeDiscriminated
            /\ RawDiscriminates(vs, all,
                 FindDiscriminator(GetUnionVariants(NodeAt(n.path))))
            /\ IssuesWith(CodeUnionNoDiscriminator, RawUnionPath(n)) = {}
            /\ profile = ProfileDefault => ErrorsAt(RawUnionPath(n)) = {}

(* A default-profile run over the dog/cat union: Discriminated on "type",  *)
(* no issue.                                                               *)
C3_Witness ==
  /\ Done /\ profile = ProfileDefault
  /\ data = JObj("$defs" :> JObj("X" :> UnionOf("anyOf", <<Dog, Cat>>)))
  /\ ClassifyUnion(GetUnionVariants(NodeAt("$/$defs/X"))) = ShapeDiscriminated
  /\ FindDiscriminator(GetUnionVariants(NodeAt("$/$defs/X"))) = "type"
  /\ issues = <<>>

-----------------------------------------------------------------------------
(* C4 *)

(* C4: a union whose variants are all $ref nodes gets no union-no-         *)
(* discriminator issue at its own path, whatever the referenced            *)
(* definitions contain, and is classified ReferenceOnly.                   *)
C4_AllRefs ==
  Done =>
    \A n \in InputNodes :
      LET vs == RawVariants(n.raw) IN
        (Len(vs) >= 1 /\ RawAllRefs(vs)) =>
          /\ IssuesWith(CodeUnionNoDiscriminator, RawUnionPath(n)) = {}
          /\ ~RawNullableUnion(n.raw) =>
               ClassifyUnion(GetUnionVariants(NodeAt(n.path)))
                 = ShapeReferenceOnly

(* A run over Animal = anyOf [$ref Dog, $ref Cat] where the referenced Dog *)
(* definition is itself an ambiguous union: the issue is reported at Dog,  *)
(* none at Animal.                                                         *)
C4_Witness ==
  /\ Done
  /\ \E n \in InputNodes :
       /\ RawUnionPath(n) = "$/$defs/Animal/anyOf"
       /\ Len(RawVariants(n.raw)) = 2 /\ RawAllRefs(RawVariants(n.raw))
  /\ IssuesWith(CodeUnionNoDiscriminator, "$/$defs/Animal/anyOf") = {}
  /\ IssuesOfCode(CodeUnionNoDiscriminator) # {}

-----------------------------------------------------------------------------
(* C5 *)

CompositionKeywords == {"anyOf", "oneOf", "allOf"}

(* C5: under the scale profile every non-empty anyOf, oneOf or allOf       *)
(* anywhere in the document yields a composition-disallowed issue of       *)
(* severity error at that keyword, so a document containing one has at     *)
(* least one such issue and HasErrors(); under the default profile no      *)
(* document yields that code.                                              *)
C5_Composition ==
  Done =>
    /\ profile = ProfileScale =>
         \A n \in InputNodes : \A kw \in CompositionKeywords :
           Len(RawList(n.raw, kw)) > 0 =>
             /\ IssuesWith(CodeCompositionDisallowed, n.path \o "/" \o kw) # {}
             /\ \A i \in IssuesOfCode(CodeCompositionDisallowed) :
                  issues[i].Severity = SeverityError
             /\ HasErrors(issues)
    /\ profile = ProfileDefault => IssuesOfCode(CodeCompositionDisallowed) = {}

(* A scale-profile run over an object whose property "p" is an allOf: the  *)
(* error is reported at $/properties/p/allOf.                              *)
C5_Witness ==
  /\ Done /\ profile = ProfileScale
  /\ data = Place("property",
                  JObj("allOf" :> JArr(<<Plain("name"), Plain("age")>>)))
  /\ Cardinality(IssuesWith(CodeCompositionDisallowed,
                            "$/properties/p/allOf")) = 1

-----------------------------------------------------------------------------
(* C6 *)

(* C6: a union has exactly one large-union issue, a warning, when it has   *)
(* more than DefaultMaxUnionVariants variants, and none otherwise; a       *)
(* document whose only definition is a union of 11 object variants with    *)
(* pairwise distinct const discriminators yields, under the default        *)
(* profile, one large-union warning and zero errors.                       *)
C6_LargeUnion ==
  Done =>
    \A n \in InputNodes :
      LET vs == RawVariants(n.raw)
          large == IssuesWith(CodeLargeUnion, RawUnionPath(n))
      IN Len(vs) >= 1 =>
           /\ Cardinality(large)
                = IF Len(vs) > DefaultMaxUnionVariants THEN 1 ELSE 0
           /\ \A i \in large : issues[i].Severity = SeverityWarning
           /\ ( /\ Len(vs) = DefaultMaxUnionVariants + 1
                /\ profile = ProfileDefault
                /\ OnlyDefinition(n)
                /\ \A i \in 1..Len(vs) : ~RawIsRef(vs[i])
                /\ RawDiscriminates(vs, 1..Len(vs), "type") )
              => /\ Cardinality(IssuesOfCode(CodeLargeUnion)) = 1
                 /\ WarningCount(issues) = 1
                 /\ ErrorCount(issues) = 0

(* A default-profile run over an 11-variant oneOf with distinct constants: *)
(* the one warning, no error.                                              *)
C6_Witness ==
  /\ Done /\ profile = ProfileDefault
  /\ data = JObj("$defs" :> JObj("LargeUnion" :>
              UnionOf("oneOf", LargeVariants("tagged", 11))))
  /\ issues = <<Issue(CodeLargeUnion, SeverityWarning,
                      "$/$defs/LargeUnion/oneOf")>>

-----------------------------------------------------------------------------
(* C7 *)

RawOpenObject(v) ==
  /\ RawIsObject(v)
  /\ Has(v, "additionalProperties")
  /\ v.o["additionalProperties"] = JBool(TRUE)

(* C7: under the scale profile every object schema whose                   *)
(* additionalProperties is the boolean true yields an additional-          *)
(* properties-disallowed issue, an error, at its path, and exactly one in  *)
(* the whole result when the root is the only such schema; the default     *)
(* profile never emits that code.                                          *)
C7_AdditionalPropertiesDisallowed ==
  Done =>
    /\ profile = ProfileScale =>
         /\ \A n \in InputNodes :
              RawOpenObject(n.raw) =>
                /\ IssuesWith(CodeAdditionalPropsDisallowed, n.path) # {}
                /\ \A i \in IssuesWith(CodeAdditionalPropsDisallowed, n.path) :
                     issues[i].Severity = SeverityError
         /\ ( /\ RawOpenObject(data)
              /\ \A n \in InputNodes : RawOpenObject(n.raw) => n.path = RootPath )
            => Cardinality(IssuesOfCode(CodeAdditionalPropsDisallowed)) = 1
    /\ profile = ProfileDefault =>
         IssuesOfCode(CodeAdditionalPropsDisallowed) = {}

(* A scale-profile run over {"type": "object", "properties": {"name":      *)
(* {"type": "string"}}, "additionalProperties": true}: the one error at $. *)
C7_Witness ==
  /\ Done /\ profile = ProfileScale
  /\ data = JObj("type" :> JStr("object")
                 @@ "properties" :> JObj("name" :> TString)
                 @@ "additionalProperties" :> JBool(TRUE))
  /\ issues = <<Issue(CodeAdditionalPropsDisallowed, SeverityError, "$")>>

-----------------------------------------------------------------------------
(* C8 *)

(* An object-form schema text with no $ref, no composition and no type.    *)
RawUntyped(v) ==
  /\ v.k = "obj"
  /\ ~Has(v, "$ref")
  /\ ~RawComposed(v)
  /\ ~Has(v, "type")

(* C8: under the scale profile every schema that is not a reference, not a *)
(* boolean schema and not composed, and that has no type, yields a         *)
(* missing-type issue, an error, at its path; a named definition that      *)
(* declares only properties is one of them.                                *)
C8_MissingType ==
  (Done /\ profile = ProfileScale) =>
    \A n \in InputNodes :
      RawUntyped(n.raw) =>
        /\ IssuesWith(CodeMissingType, n.path) # {}
        /\ \A i \in IssuesWith(CodeMissingType, n.path) :
             issues[i].Severity = SeverityError
        /\ HasErrors(issues)

(* A scale-profile run over {"$defs": {"Person": {"properties": {"name":   *)
(* {"type": "string"}}}}}: missing-type at $/$defs/Person.                 *)
C8_Witness ==
  /\ Done /\ profile = ProfileScale
  /\ data = JObj("$defs" :> JObj("Person" :>
              JObj("properties" :> JObj("name" :> TString))))
  /\ Cardinality(IssuesWith(CodeMissingType, "$/$defs/Person")) = 1
  /\ IssuesWith(CodeMissingType, "$/$defs/Person/properties/name") = {}

-----------------------------------------------------------------------------
(* C9 *)

(* The "type" facet as written is a list of n or more type names.          *)
RawTypeNames(v) ==
  IF Has(v, "type") /\ v.o["type"].k = "arr"
       /\ \A i \in 1..Len(v.o["type"].a) : v.o["type"].a[i].k = "str"
    THEN [i \in 1..Len(v.o["type"].a) |-> v.o["type"].a[i].s]
  ELSE <<>>

(* The document is {"$defs": {"T": {"type": <list of type names>}}}.       *)
OnlyTypeList ==
  /\ data.k = "obj" /\ DOMAIN data.o = {"$defs"}
  /\ data.o["$defs"].k = "obj" /\ DOMAIN data.o["$defs"].o = {"T"}
  /\ data.o["$defs"].o["T"].k = "obj"
  /\ DOMAIN data.o["$defs"].o["T"].o = {"type"}
  /\ Len(RawTypeNames(data.o["$defs"].o["T"])) > 1

(* C9: a schema whose type is written as a list of more than one type name *)
(* decodes without error and, under the scale profile, yields a            *)
(* mixed-type-disallowed issue, an error, at its path; a type written as a *)
(* string or as a one-element list yields none, and for a one-element list *)
(* the decoded Type is that element.                                       *)
C9_MixedType ==
  /\ (pc = "done" /\ OnlyTypeList) => ~err
  /\ Done =>
       \A n \in InputNodes :
         LET names == RawTypeNames(n.raw)
             mixed == IssuesWith(CodeMixedTypeDisallowed, n.path)
         IN /\ (Len(names) > 1 /\ profile = ProfileScale) =>
                 /\ mixed # {}
                 /\ \A i \in mixed : issues[i].Severity = SeverityError
            /\ Len(names) = 1 =>
                 /\ mixed = {}
                 /\ NodeAt(n.path).Type = names[1]
                 /\ NodeAt(n.path).TypeList = names
            /\ (Has(n.raw, "type") /\ n.raw.o["type"].k = "str") =>
                 /\ mixed = {}
                 /\ NodeAt(n.path).Type = n.raw.o["type"].s

(* A scale-profile run over {"$defs": {"T": {"type": ["string",            *)
(* "number"]}}}: decoded, and reported at $/$defs/T.                       *)
C9_Witness ==
  /\ Done /\ profile = ProfileScale
  /\ data = JObj("$defs" :> JObj("T" :> TMixed))
  /\ NodeAt("$/$defs/T").TypeList = <<"string", "number">>
  /\ Cardinality(IssuesWith(CodeMixedTypeDisallowed, "$/$defs/T")) = 1

-----------------------------------------------------------------------------
(* C10 *)

RawAdditional(v, b) ==
  Has(v, "additionalProperties") /\ v.o["additionalProperties"] = JBool(b)

(* Some variant is written open and another closed. *)
RawDisagree(vs) ==
  \E i, k \in 1..Len(vs) : RawAdditional(vs[i], TRUE) /\ RawAdditional(vs[k], FALSE)

(* C10: under the default profile a union with one variant written         *)
(* additionalProperties true and another written additionalProperties      *)
(* false yields an additional-properties issue, a warning, at the          *)
(* union, whether or not the union has a valid discriminator; under the    *)
(* scale profile no document yields that code.                             *)
C10_AdditionalProperties ==
  Done =>
    /\ profile = ProfileDefault =>
         \A n \in InputNodes :
           RawDisagree(RawVariants(n.raw)) =>
             /\ IssuesWith(CodeAdditionalProps, RawUnionPath(n)) # {}
             /\ \A i \in IssuesWith(CodeAdditionalProps, RawUnionPath(n)) :
                  issues[i].Severity = SeverityWarning
    /\ profile = ProfileScale => IssuesOfCode(CodeAdditionalProps) = {}

(* A default-profile run over a union of an open dog and a closed cat,     *)
(* Discriminated on "type": the warning is its only issue.                 *)
C10_Witness ==
  /\ Done /\ profile = ProfileDefault
  /\ data = JObj("$defs" :> JObj("X" :> UnionOf("anyOf", <<DogOpen, CatClosed>>)))
  /\ ClassifyUnion(GetUnionVariants(NodeAt("$/$defs/X"))) = ShapeDiscriminated
  /\ issues = <<Issue(CodeAdditionalProps, SeverityWarning, "$/$defs/X/anyOf")>>

-----------------------------------------------------------------------------
(* C11 *)

(* The "type" facet as written names exactly one type. *)
RawSingleType(v) ==
  /\ Has(v, "type")
  /\ \/ v.o["type"].k = "str" /\ v.o["type"].s # ""
     \/ Len(RawTypeNames(v)) = 1

(* No composition keyword, a single type on every schema node,            *)
(* additionalProperties false at the root and true nowhere.               *)
RawScaleValid ==
  /\ RawAdditional(data, FALSE)
  /\ \A n \in InputNodes :
       /\ n.raw.k = "obj"
       /\ RawSingleType(n.raw)
       /\ \A kw \in CompositionKeywords : ~Has(n.raw, kw)
       /\ ~RawAdditional(n.raw, TRUE)

(* C11: under the scale profile a document with no anyOf/oneOf/allOf, an   *)
(* explicit single type on the root and on each property, and              *)
(* additionalProperties false yields a Result with HasErrors() false and   *)
(* ErrorCount() zero.                                                      *)
C11_ScaleValid ==
  (Done /\ profile = ProfileScale /\ RawScaleValid) =>
    /\ ~HasErrors(issues)
    /\ ErrorCount(issues) = 0

(* A scale-profile run over {"type": "object", "properties": {"name":      *)
(* {"type": "string"}}, "additionalProperties": false}: no issue.          *)
C11_Witness ==
  /\ Done /\ profile = ProfileScale
  /\ data = JObj("type" :> JStr("object")
                 @@ "properties" :> JObj("name" :> TString)
                 @@ "additionalProperties" :> JBool(FALSE))
  /\ RawScaleValid
  /\ issues = <<>>

-----------------------------------------------------------------------------
(* C12 *)

RECURSIVE Tally(_, _)
Tally(is, sev) ==
  IF Len(is) = 0 THEN 0
  ELSE (IF Head(is).Severity = sev THEN 1 ELSE 0) + Tally(Tail(is), sev)

(* C12: for every Result, ErrorCount() is the number of issues of severity *)
(* error, WarningCount() the number of severity warning, issues of         *)
(* severity info count toward neither, and HasErrors() is true if and only *)
(* if ErrorCount() > 0.                                                    *)
C12_ResultCounts ==
  pc = "queried" =>
    /\ counts.errors = Tally(issues, SeverityError)
    /\ counts.warnings = Tally(issues, SeverityWarning)
    /\ counts.errors + counts.warnings
         = Len(issues) - Tally(issues, SeverityInfo)
    /\ counts.hasErrors <=> counts.errors > 0

(* The Result of TestResultCounts: two errors, one warning, one info.      *)
C12_Witness ==
  /\ pc = "queried"
  /\ issues = <<Issue("", SeverityError, ""), Issue("", SeverityError, ""),
                Issue("", SeverityWarning, ""), Issue("", SeverityInfo, "")>>
  /\ counts = [errors |-> 2, warnings |-> 1, hasErrors |-> TRUE]

-----------------------------------------------------------------------------
(* C13 *)

(* C13 as stated: decoding fails only when the input is not syntactically  *)
(* valid JSON; every valid JSON input, whatever the JSON kind of the       *)
(* values under its schema keywords, decodes without error.                *)
C13_AsStated ==
  (pc = "done" /\ data # JInvalid) => ~err

-----------------------------------------------------------------------------
(* C14 *)

(* C14: after decoding, an absent additionalProperties gives               *)
(* AdditionalProperties nil and AdditionalPropertiesSchema nil; a boolean  *)
(* b gives AdditionalProperties pointing to b and AdditionalProperties-    *)
(* Schema nil; a nested schema (an object that decodes) gives that schema  *)
(* in AdditionalPropertiesSchema with AdditionalProperties pointing to     *)
(* true; and no object-form additionalProperties is represented the same   *)
(* as a bare true.                                                         *)
C14_AdditionalPropertiesForms ==
  Done =>
    \A n \in InputNodes :
      n.raw.k = "obj" =>
        LET s == NodeAt(n.path)
            absent == ~Has(n.raw, "additionalProperties")
            a == IF absent THEN JNull ELSE n.raw.o["additionalProperties"]
        IN /\ absent =>
                /\ s.AdditionalProperties = "nil"
                /\ s.AdditionalPropertiesSchema = <<>>
           /\ (~absent /\ a.k = "bool") =>
                /\ s.AdditionalProperties = IF a.b THEN "true" ELSE "false"
                /\ s.AdditionalPropertiesSchema = <<>>
           /\ (~absent /\ a.k = "obj") =>
                /\ ~(s.AdditionalProperties = "true"
                       /\ s.AdditionalPropertiesSchema = <<>>)
                /\ ~UnmarshalJSON(a).err =>
                     /\ s.AdditionalProperties = "true"
                     /\ s.AdditionalPropertiesSchema = <<UnmarshalJSON(a).s>>
                     /\ ~s.AdditionalPropertiesSchema[1].IsBooleanSchema

(* A run over an object whose additionalProperties is {"type": "string"}:  *)
(* the nested schema is kept, beside AdditionalProperties = true.          *)
C14_Witness ==
  /\ Done
  /\ Has(data, "additionalProperties")
  /\ data.o["additionalProperties"] = TString
  /\ schema.AdditionalProperties = "true"
  /\ Len(schema.AdditionalPropertiesSchema) = 1
  /\ schema.AdditionalPropertiesSchema[1].Type = "string"

-----------------------------------------------------------------------------
(* C15 *)

(* The pointers that name a definition of the document. *)
DefinedPointers ==
  {"#/$defs/" \o n : n \in DOMAIN RawMap(data, "$defs")}
  \cup {"#/definitions/" \o n : n \in DOMAIN RawMap(data, "definitions")}

RawUnresolved(v) == RawIsRef(v) /\ v.o["$ref"].s \notin DefinedPointers

(* The document with every unresolved $ref pointed at `to` instead. *)
RECURSIVE Retarget(_, _)
Retarget(j, to) ==
  IF j.k = "obj"
    THEN IF RawUnresolved(j)
           THEN JObj([key \in DOMAIN j.o |->
                        IF key = "$ref" THEN JStr(to) ELSE Retarget(j.o[key], to)])
           ELSE JObj([key \in DOMAIN j.o |-> Retarget(j.o[key], to)])
  ELSE IF j.k = "arr" THEN JArr([i \in 1..Len(j.a) |-> Retarget(j.a[i], to)])
  ELSE j

LintOf(j, prof) == LintSchema(UnmarshalJSON(j).s, RootPath, prof)

-----------------------------------------------------------------------------
(* C16 *)

(* Every $ref is kept as the string written, and the decoded tree has a    *)
(* node only where the document writes one: no reference was followed.     *)
RefsKeptAsStrings ==
  Done =>
    /\ \A n \in InputNodes :
         (n.raw.k = "obj" /\ Has(n.raw, "$ref") /\ n.raw.o["$ref"].k = "str") =>
           NodeAt(n.path).Ref = n.raw.o["$ref"].s
    /\ {m.path : m \in DecodedNodes(schema, RootPath)}
         = {n.path : n \in InputNodes}

-----------------------------------------------------------------------------
(* C17 *)

(* The node the decoder builds for a boolean schema: no other facet set.   *)
BooleanNode(b) ==
  [ZeroSchema EXCEPT !.IsBooleanSchema = TRUE, !.BooleanValue = b]

(* C17 as stated: after decoding, a node is marked as a boolean schema if  *)
(* and only if its JSON text is literally true or false, BooleanValue then *)
(* equals that literal and no other facet is populated; a node given as    *)
(* any non-boolean value is never marked as a boolean schema.              *)
C17_AsStated ==
  Done =>
    \A n \in InputNodes :
      /\ NodeAt(n.path).IsBooleanSchema <=> n.raw.k = "bool"
      /\ n.raw.k = "bool" => NodeAt(n.path) = BooleanNode(n.raw.b)

-----------------------------------------------------------------------------
(* C18 *)

(* The decoded form of a list of schema texts. *)
DecodedList(l) == [i \in 1..Len(l) |-> UnmarshalPtr(l[i]).s]

(* C18: GetUnionVariants returns the anyOf list whenever anyOf is          *)
(* non-empty, whatever oneOf holds, and the oneOf list otherwise; IsUnion  *)
(* is true if and only if GetUnionVariants is non-empty; a node carrying   *)
(* only allOf is not a union.                                              *)
C18_UnionVariants ==
  Done =>
    \A n \in InputNodes :
      n.raw.k = "obj" =>
        LET s == NodeAt(n.path)
            any == RawList(n.raw, "anyOf")
            one == RawList(n.raw, "oneOf")
        IN /\ Len(any) > 0 => GetUnionVariants(s) = DecodedList(any)
           /\ Len(any) = 0 => GetUnionVariants(s) = DecodedList(one)
           /\ IsUnion(s) <=> Len(GetUnionVariants(s)) > 0
           /\ (Len(any) = 0 /\ Len(one) = 0) => ~IsUnion(s)

(* A run over a node with both lists, anyOf [dog, string] and oneOf        *)
(* [string, null]: the variants are the two of anyOf.                      *)
C18_Witness ==
  /\ Done
  /\ data = JObj("anyOf" :> JArr(<<Dog, TString>>)
                 @@ "oneOf" :> JArr(<<TString, TNull>>))
  /\ IsUnion(schema)
  /\ Len(schema.OneOf) = 2
  /\ GetUnionVariants(schema) = DecodedList(<<Dog, TString>>)
  /\ GetUnionVariants(schema) # schema.OneOf

====
